---- MODULE Spec2Model ----
(***************************************************************************)
(* Somunicate dimension-based audio search: the sound-matching engine of   *)
(* the script variants v2.0/v3.0 (single closest sound), v5.0, v9.0 and    *)
(* v10.0 (top-N with demographic filter).                                  *)
(*                                                                         *)
(* Numbers.  Ratings, targets and matrix entries are integers; a distance  *)
(* is kept as its square (np.sqrt and np.linalg.norm take the square root  *)
(* of a sum that is kept here before the root: the root is strictly        *)
(* increasing on non-negative numbers, so comparing squares compares       *)
(* distances), and the square root of a negative number is NaN.  NaN is a  *)
(* value outside every rating, score and distance range; every operator    *)
(* that reads a number propagates it the way IEEE arithmetic does, and     *)
(* every comparison with it is false.                                      *)
(*                                                                         *)
(* Indices are 0-based as in the source (DataFrame.iloc, numpy indexing);  *)
(* Python lists are sequences.                                             *)
(***************************************************************************)
EXTENDS Integers, Sequences, FiniteSets, TLC

\* ---------------------------------------------------------------- bounds
NumSounds == 3
NumRatingColumns == 3
MaxSelected == 2
MaxTopN == 3

\* ------------------------------------------------------ program constants
NUM_DEMOGRAPHIC_GROUPS == 12
FIRST_RATING_COLUMN == 4
NaN == 9999
ONE == 4

all_dimensions ==
  << "being_ready", "having_news", "being_empty", "shutting_down",
     "negative_warnings", "urgency_reminder", "encouraging_confirmations",
     "starting_prompts", "waiting_prompts", "sophistication", "positivity",
     "progressiveness", "dominance", "solidity", "process_ongoing",
     "having_a_problem", "having_finished_successfully", "purity",
     "playfulness" >>

\* data.columns[4:23], cut to the modelled number of rating columns
rating_columns == SubSeq(all_dimensions, 1, NumRatingColumns)

Sounds == 0 .. (NumSounds - 1)
MatrixIndex == 0 .. (NumRatingColumns - 1)
Versions == {"v3", "v5", "v9", "v10"}

\* ------------------------------------------------------------ arithmetic
isna(x) == x = NaN

Range(s) == { s[i] : i \in DOMAIN s }

RECURSIVE SumSeq(_)
SumSeq(s) == IF s = << >> THEN 0 ELSE Head(s) + SumSeq(Tail(s))

AnyNaN(s) == \E i \in DOMAIN s : isna(s[i])

Min(a, b) == IF a < b THEN a ELSE b

\* list.index(x) / Index.get_loc(x): 0-based position of the first x
IndexOf(list, x) ==
  (CHOOSE i \in DOMAIN list : list[i] = x /\ \A j \in 1 .. (i - 1) : list[j] # x) - 1

\* str(group_id): the liking column of a group; str(group_id + 12): its
\* familiarity column
str(n) == ToString(n)

\* ------------------------------------------------- distances and ranking
\* the norm taken over the whole rating profile: the selected columns against
\* their targets and every other rating column against 0
EuclideanDistance_AllColumns(row, dims, ratings) ==
  LET diff == [k \in DOMAIN dims |->
                 IF isna(row[dims[k]]) THEN NaN ELSE row[dims[k]] - ratings[k]]
      rest == [c \in DOMAIN rating_columns |->
                 IF rating_columns[c] \in Range(dims) THEN 0 ELSE row[rating_columns[c]]]
  IN  IF AnyNaN(diff) \/ AnyNaN(rest) THEN NaN
      ELSE SumSeq([k \in DOMAIN dims |-> diff[k] * diff[k]])
           + SumSeq([c \in DOMAIN rating_columns |-> rest[c] * rest[c]])

\* np.linalg.norm(specified_dimensions.values - user_ratings, axis=1) for one
\* row: the squared norm over the selected columns, NaN if a cell is NaN
EuclideanDistance(row, dims, ratings) ==
  LET diff == [k \in DOMAIN dims |->
                 IF isna(row[dims[k]]) THEN NaN ELSE row[dims[k]] - ratings[k]]
  IN  IF AnyNaN(diff) THEN NaN
      ELSE SumSeq([k \in DOMAIN dims |-> diff[k] * diff[k]])

\* inv_cov_matrix[np.ix_(rows, rows)]: entry (i, j) is the full matrix entry
\* at (rows[i], rows[j]); rows is a Python list, positions are 0-based
ix_(matrix, rows) ==
  [i \in 0 .. (Len(rows) - 1) |->
     [j \in 0 .. (Len(rows) - 1) |-> matrix[rows[i + 1]][rows[j + 1]]]]

\* the positions looked up in the list of selected dimensions instead of the
\* rating columns
SelectedRows_get_loc_InSelection(dims) ==
  [k \in DOMAIN dims |-> IndexOf(dims, dims[k])]

\* v2.0/v3.0: [rating_columns.get_loc(dim) for dim in dimensions]
SelectedRows_get_loc(dims) ==
  [k \in DOMAIN dims |-> IndexOf(rating_columns, dims[k])]

\* v5.0/v9.0/v10.0: [dimensions.index(dim) for dim in dimensions]
SelectedRows_index(dims) ==
  [k \in DOMAIN dims |-> IndexOf(dims, dims[k])]

\* np.sqrt(diff.T @ selected_inv_cov_matrix @ diff) for one row, squared;
\* NaN if a cell is NaN or the quadratic form is negative
MahalanobisDistance(row, dims, ratings, sel) ==
  LET diff == [k \in DOMAIN dims |->
                 IF isna(row[dims[k]]) THEN NaN ELSE row[dims[k]] - ratings[k]]
      n == Len(dims)
      q == SumSeq([i \in 1 .. n |->
             SumSeq([j \in 1 .. n |-> diff[i] * sel[i - 1][j - 1] * diff[j]])])
  IN  IF AnyNaN(diff) THEN NaN
      ELSE IF q < 0 THEN NaN
      ELSE q

EuclideanDistances(table, dims, ratings) ==
  [i \in DOMAIN table |-> EuclideanDistance(table[i], dims, ratings)]

MahalanobisDistances(table, dims, ratings, sel) ==
  [i \in DOMAIN table |-> MahalanobisDistance(table[i], dims, ratings, sel)]

\* the order np.argsort / np.argmin put two distances in: NaN sorts last
SortsBefore(a, b) == isna(b) \/ (~isna(a) /\ a <= b)

\* the orders an array of one entry per catalog row can be put in
IndexOrders ==
  { p \in [1 .. NumSounds -> Sounds] : \A i, j \in 1 .. NumSounds : i # j => p[i] # p[j] }

\* np.argsort(distances): the default sort kind is not stable, so every
\* ascending permutation (NaN last) is an outcome; equal keys in any order
argsort(d) ==
  { p \in IndexOrders :
      \A i \in 1 .. (NumSounds - 1) : SortsBefore(d[p[i]], d[p[i + 1]]) }

\* the order a numpy build leaves equal keys in is fixed by its sort routine:
\* the builds modelled leave them by ascending or by descending index
TieOrders == {"ascending", "descending"}

\* np.argsort(distances) of one build: the same array always comes out in
\* the same order
argsort_of(order, d) ==
  CHOOSE p \in argsort(d) :
    \A a, b \in 1 .. NumSounds :
      (a < b /\ d[p[a]] = d[p[b]]) =>
        IF order = "ascending" THEN p[a] < p[b] ELSE p[a] > p[b]

\* np.argmin(distances): the first NaN if there is one, else the first
\* occurrence of the minimum
argmin(d) ==
  IF \E i \in DOMAIN d : isna(d[i])
  THEN CHOOSE i \in DOMAIN d : isna(d[i]) /\ \A j \in DOMAIN d : isna(d[j]) => i <= j
  ELSE CHOOSE i \in DOMAIN d :
         /\ \A j \in DOMAIN d : d[i] <= d[j]
         /\ \A j \in DOMAIN d : d[j] = d[i] => i <= j

\* ---------------------------------------------------- demographic filter
\* np.mean(list): NaN for an empty list or a list holding NaN, else the
\* quotient sum / len, kept as the pair of its numerator and denominator
mean(values) ==
  IF values = << >> \/ AnyNaN(values)
  THEN [nan |-> TRUE, num |-> 0, den |-> 1]
  ELSE [nan |-> FALSE, num |-> SumSeq(values), den |-> Len(values)]

\* the comparison the other way round: average <= threshold
MeanAtLeast_AtMost(average, threshold) ==
  ~average.nan /\ average.num <= threshold * average.den

\* average >= threshold on floats: false for NaN
MeanAtLeast(average, threshold) ==
  ~average.nan /\ average.num >= threshold * average.den

\* the two conditions taken over the best selected group instead of the mean
PassesFilter_v10_Max(row, group_ids, min_liking, min_familiarity) ==
  /\ \E k \in DOMAIN group_ids :
        LET x == row[str(group_ids[k])] IN ~isna(x) /\ x >= min_liking
  /\ \E k \in DOMAIN group_ids :
        LET x == row[str(group_ids[k] + 12)] IN ~isna(x) /\ x >= min_familiarity

\* the two conditions with an undefined score counted as 0, the way
\* calculate_scores counts it
PassesFilter_v10_NaNAsZero(row, group_ids, min_liking, min_familiarity) ==
  LET zero(x) == IF isna(x) THEN 0 ELSE x
      average_liking ==
        mean([k \in DOMAIN group_ids |-> zero(row[str(group_ids[k])])])
      average_familiarity ==
        mean([k \in DOMAIN group_ids |-> zero(row[str(group_ids[k] + 12)])])
  IN  /\ MeanAtLeast(average_liking, min_liking)
      /\ MeanAtLeast(average_familiarity, min_familiarity)

\* v10.0 lines 319-327: condition1 and condition2 for one row
PassesFilter_v10(row, group_ids, min_liking, min_familiarity) ==
  LET average_liking ==
        mean([k \in DOMAIN group_ids |-> row[str(group_ids[k])]])
      average_familiarity ==
        mean([k \in DOMAIN group_ids |-> row[str(group_ids[k] + 12)]])
  IN  /\ MeanAtLeast(average_liking, min_liking)
      /\ MeanAtLeast(average_familiarity, min_familiarity)

\* the two conditions of v9.0 asked of one and the same group
PassesFilter_v9_SameGroup(row, group_ids, min_liking, min_familiarity) ==
  \E k \in DOMAIN group_ids :
     LET x == row[str(group_ids[k])]
         y == row[str(group_ids[k] + 12)]
     IN  ~isna(x) /\ x >= min_liking /\ ~isna(y) /\ y >= min_familiarity

\* v9.0 lines 303-309: any(...) over the groups for liking and familiarity
PassesFilter_v9(row, group_ids, min_liking, min_familiarity) ==
  /\ \E k \in DOMAIN group_ids :
        LET x == row[str(group_ids[k])] IN ~isna(x) /\ x >= min_liking
  /\ \E k \in DOMAIN group_ids :
        LET x == row[str(group_ids[k] + 12)] IN ~isna(x) /\ x >= min_familiarity

\* the test of v5.0 with >= 50 in place of > 50
PassesFilter_v5_AtLeast50(row, group_ids) ==
  \E k \in DOMAIN group_ids :
     LET x == row[str(group_ids[k])] IN ~isna(x) /\ x >= 50

\* v5.0 line 185: any(liking > 50) over the groups
PassesFilter_v5(row, group_ids) ==
  \E k \in DOMAIN group_ids :
     LET x == row[str(group_ids[k])] IN ~isna(x) /\ x > 50

\* the loop with the stop test len(filtered_indices) > top_n
RECURSIVE FilterLoop_StopsLate(_, _, _, _, _)
FilterLoop_StopsLate(indices, pos, filtered_indices, passes, n) ==
  IF pos > Len(indices) THEN filtered_indices
  ELSE LET index == indices[pos]
           appended == IF passes[index]
                       THEN Append(filtered_indices, index)
                       ELSE filtered_indices
       IN  IF Len(appended) > n THEN appended
           ELSE FilterLoop_StopsLate(indices, pos + 1, appended, passes, n)

\* the loop leaving at the first row that fails the filter
RECURSIVE FilterLoop_StopsAtFailure(_, _, _, _, _)
FilterLoop_StopsAtFailure(indices, pos, filtered_indices, passes, n) ==
  IF pos > Len(indices) THEN filtered_indices
  ELSE LET index == indices[pos]
       IN  IF ~passes[index] THEN filtered_indices
           ELSE IF Len(filtered_indices) + 1 >= n THEN Append(filtered_indices, index)
           ELSE FilterLoop_StopsAtFailure(indices, pos + 1,
                                          Append(filtered_indices, index), passes, n)

\* the loop staying on a row it has appended and looking at it again
RECURSIVE FilterLoop_LooksAgain(_, _, _, _, _)
FilterLoop_LooksAgain(indices, pos, filtered_indices, passes, n) ==
  IF pos > Len(indices) THEN filtered_indices
  ELSE LET index == indices[pos]
           appended == IF passes[index]
                       THEN Append(filtered_indices, index)
                       ELSE filtered_indices
       IN  IF Len(appended) >= n THEN appended
           ELSE FilterLoop_LooksAgain(indices, IF passes[index] THEN pos ELSE pos + 1,
                                      appended, passes, n)

\* the loop of v10.0 lines 316-330 (v9.0 300-312, v5.0 183-188) from position
\* pos of top_indices on: append the index if it passes, stop once top_n
\* indices are collected (index == '' never holds for an integer index)
RECURSIVE FilterLoop(_, _, _, _, _)
FilterLoop(indices, pos, filtered_indices, passes, n) ==
  IF pos > Len(indices) THEN filtered_indices
  ELSE LET index == indices[pos]
           appended == IF passes[index]
                       THEN Append(filtered_indices, index)
                       ELSE filtered_indices
       IN  IF Len(appended) >= n THEN appended
           ELSE FilterLoop(indices, pos + 1, appended, passes, n)

TopSounds_v10(table, indices, group_ids, min_liking, min_familiarity, n) ==
  FilterLoop(indices, 1, << >>,
             [i \in DOMAIN table |->
                PassesFilter_v10(table[i], group_ids, min_liking, min_familiarity)],
             n)

TopSounds_v9(table, indices, group_ids, min_liking, min_familiarity, n) ==
  FilterLoop(indices, 1, << >>,
             [i \in DOMAIN table |->
                PassesFilter_v9(table[i], group_ids, min_liking, min_familiarity)],
             n)

\* v5.0 lines 182-191: the loop when fewer than all groups are selected,
\* otherwise the slice top_indices[:top_n]
TopSounds_v5(table, indices, group_ids, n) ==
  IF Len(group_ids) < NUM_DEMOGRAPHIC_GROUPS
  THEN FilterLoop(indices, 1, << >>,
                  [i \in DOMAIN table |-> PassesFilter_v5(table[i], group_ids)], n)
  ELSE SubSeq(indices, 1, IF n < Len(indices) THEN n ELSE Len(indices))

\* -------------------------------------------------------- reference data
\* the columns of a catalog row: the rating columns, the liking columns
\* "1".."12" and the familiarity columns "13".."24"
ScoreColumns == { str(c) : c \in 1 .. (2 * NUM_DEMOGRAPHIC_GROUPS) }
Columns == Range(rating_columns) \cup ScoreColumns

\* a catalog row from its ratings (by 0-based rating column), the liking and
\* familiarity of group 1 and the liking and familiarity of every other group
CatalogRow(ratings, liking1, liking, familiarity1, familiarity) ==
  [c \in Columns |->
     IF c \in Range(rating_columns) THEN ratings[IndexOf(rating_columns, c)]
     ELSE IF c = str(1) THEN liking1
     ELSE IF c = str(1 + 12) THEN familiarity1
     ELSE IF c \in { str(g) : g \in 1 .. NUM_DEMOGRAPHIC_GROUPS } THEN liking
     ELSE familiarity]

\* the rows a reference table is drawn from: ratings in {-1, 0, 1} or NaN
\* (an empty or non-numeric cell), scores in 0..100 or NaN
CatalogRows ==
  << CatalogRow([c \in MatrixIndex |-> 0], 100, 100, 100, 100),
     CatalogRow([c \in MatrixIndex |-> IF c = 0 THEN NaN ELSE IF c % 2 = 1 THEN 1 ELSE 0],
                0, 50, 50, 0),
     CatalogRow([c \in MatrixIndex |-> IF c % 2 = 0 THEN 1 ELSE -1],
                NaN, 100, NaN, 100),
     CatalogRow([c \in MatrixIndex |-> IF c = 0 THEN 0 ELSE IF c % 2 = 1 THEN 1 ELSE -1],
                100, NaN, 100, NaN) >>

\* a reference table: NumSounds consecutive rows of the list, starting at any
\* of its rows and wrapping around
Catalogs ==
  { [i \in Sounds |-> CatalogRows[((first + i) % Len(CatalogRows)) + 1]] :
      first \in 0 .. (Len(CatalogRows) - 1) }

\* the catalog of the first NumSounds rows: its second and third row are
\* equally far from a neutral second rating
CatalogOfTies == [i \in Sounds |-> CatalogRows[i + 1]]

\* the covariance matrices std_diag_matrix @ corr_matrix @ std_diag_matrix the
\* reference files can give, all symmetric with a positive diagonal: a
\* positive definite one, an indefinite one (the rescaled correlation table
\* 2c - 1 need not be positive semi-definite) and a singular one (identical
\* dimensions: every row is the same)
CovarianceMatrices ==
  { [i \in MatrixIndex |-> [j \in MatrixIndex |-> Min(i, j) + 1]],
    [i \in MatrixIndex |-> [j \in MatrixIndex |->
       IF Min(i, j) >= 2 THEN Min(i, j) - 1 ELSE Min(i, j) + 1]],
    [i \in MatrixIndex |-> [j \in MatrixIndex |-> 1]] }

\* the matrices np.linalg.inv can hand back for them
InverseCovarianceMatrices ==
  { [i \in MatrixIndex |-> [j \in MatrixIndex |->
       IF i = j THEN (IF i = NumRatingColumns - 1 THEN 1 ELSE 2)
       ELSE IF i - j \in {-1, 1} THEN -1 ELSE 0]],
    [i \in MatrixIndex |-> [j \in MatrixIndex |->
       LET pivot(k) == IF k >= NumRatingColumns THEN 0 ELSE IF k = 2 THEN -1 ELSE 1
       IN  IF i = j THEN pivot(i) + pivot(i + 1)
           ELSE IF i - j \in {-1, 1} THEN -pivot(IF i > j THEN i ELSE j)
           ELSE 0]] }

\* a @ b
matmul(a, b) ==
  [i \in MatrixIndex |-> [j \in MatrixIndex |->
     SumSeq([k \in 1 .. NumRatingColumns |-> a[i][k - 1] * b[k - 1][j]])]]

identity == [i \in MatrixIndex |-> [j \in MatrixIndex |-> IF i = j THEN 1 ELSE 0]]

\* np.linalg.inv(m) raises LinAlgError("Singular matrix") when m has no inverse
Singular(m) == \A b \in InverseCovarianceMatrices : matmul(m, b) # identity

\* np.linalg.inv(m) for a matrix that has an inverse
inv(m) == CHOOSE b \in InverseCovarianceMatrices : matmul(m, b) = identity

\* ------------------------------------------------------------ user input
\* the selected dimensions: the checked boxes are appended in the order the
\* boxes are displayed in, a fixed order that need not be the order of the
\* columns of the ratings file: a selection lists its dimensions in the
\* order of the rating columns or against it
DimensionLists ==
  { s \in UNION { [1 .. k -> Range(rating_columns)] : k \in 1 .. MaxSelected } :
      \/ \A i, j \in DOMAIN s :
           i < j => IndexOf(rating_columns, s[i]) < IndexOf(rating_columns, s[j])
      \/ \A i, j \in DOMAIN s :
           i < j => IndexOf(rating_columns, s[i]) > IndexOf(rating_columns, s[j]) }

\* one slider value per selected dimension: the slider of the first selected
\* dimension at either value, every other slider left at 0
TargetRatings == {0, 1}
RatingLists(k) == { [i \in 1 .. k |-> IF i = 1 THEN rating ELSE 0] : rating \in TargetRatings }

\* the group ids get_user_group_ids can return: none, one group, two groups,
\* all groups
GroupLists ==
  { << >>, << 1 >>, << 1, 2 >>, [g \in 1 .. NUM_DEMOGRAPHIC_GROUPS |-> g] }

\* the values of the Min-Liking and Min-Familiarity sliders
Thresholds == {0, 50}

\* ------------------------------------------------- ratings table header
\* the header of the median ratings file the code is written for: the
\* identifier column and three more columns, then the rating columns
DeclaredColumns ==
  << "sound" >> \o [c \in 1 .. (FIRST_RATING_COLUMN - 1) |-> str(c)] \o rating_columns

\* the headers a ratings file can come with: the declared one; one whose
\* identifier column has no name (pandas calls it "Unnamed: 0"); one whose
\* last rating column is another column; one without the identifier column
\* and one without the last rating column, each a column shorter
Headers ==
  { DeclaredColumns,
    [DeclaredColumns EXCEPT ![1] = "Unnamed: 0"],
    [DeclaredColumns EXCEPT ![Len(DeclaredColumns)] = "Unnamed: 0"],
    Tail(DeclaredColumns),
    SubSeq(DeclaredColumns, 1, Len(DeclaredColumns) - 1) }

\* data.columns[4:23]: the rating columns are taken by position
load_median_data(header) ==
  SubSeq(header, FIRST_RATING_COLUMN + 1,
         Min(Len(header), FIRST_RATING_COLUMN + NumRatingColumns))

\* ------------------------------------------------------------------ state
VARIABLES
  version,                  \* which script variant runs
  tie_order,                \* the order np.argsort of this numpy build leaves equal keys in
  data_columns,             \* data.columns, the header of the median ratings file
  final_combined_data,      \* the catalog table (data in v2.0/v3.0)
  cov_matrix,               \* std_diag_matrix @ corr_matrix @ std_diag_matrix
  inv_cov_matrix,           \* the cached inverse covariance matrix, << >> for None
  inversions,               \* calls of np.linalg.inv in this script run
  MIN_LIKING,               \* st.session_state.MIN_LIKING
  MIN_FAMILIARITY,          \* st.session_state.MIN_FAMILIARITY
  user_group_ids,           \* self.user_group_ids
  user_ratings,             \* the slider value of each selected dimension
  dimensions,               \* the selected dimensions, in selection order
  top_n,                    \* the number of sounds asked for
  sliders,                  \* the values of the Min-Liking and Min-Familiarity sliders drawn in this run, << >> if not drawn
  pc,                       \* position of the script run
  message,                  \* the st.info / st.error / st.warning text asking for input
  warning,                  \* the shortfall the last step warned of, 0 for no warning
  selected_inv_cov_matrix,  \* the sub-matrix of the last Mahalanobis call
  distances,                \* the distances of the last call, by row index
  top_indices,              \* np.argsort(distances) of the last call
  closest_sounds,           \* the row indices the last call returned
  correlations_csv,         \* the rows of correlations.csv as read, << >> when not modelled
  ratings_std,              \* data[rate_cols].std(), one value per rating column
  std_diag_matrix,          \* the local of load_and_prepare_data, << >> for unset
  corr_matrix,              \* the local of load_and_prepare_data, << >> for unset
  covariance,               \* std_diag_matrix @ corr_matrix @ std_diag_matrix, << >> for unset
  row,                      \* the row calculate_scores is called with, << >> when not modelled
  id_position,              \* how many ids the for loop of calculate_scores has taken
  total_liking,             \* the locals of calculate_scores
  total_familiarity,
  count_liking,
  count_familiarity,
  average_liking,           \* the pair calculate_scores returns
  average_familiarity,
  groupID_data,             \* the rows of groupid.csv, << >> when not modelled
  checked,                  \* the value of each demographic checkbox, by label
  filtered_data,            \* the local of get_user_group_ids
  param_position,           \* how many parameters its filter loop has taken
  closest_sounds_euclidean, \* the two results display_results shows
  closest_sounds_mahalanobis,
  Display_Euclidean_Sounds, \* Euclidean_Display_Check, the "Display Euclidean Sounds?" checkbox
  euc_audio_num,            \* the counters of the two display loops
  mah_audio_num,
  rank_label                \* the last audio_closeness_display[...] read, "" for none

vars ==
  << version, tie_order, data_columns, final_combined_data, cov_matrix, inv_cov_matrix,
     inversions, MIN_LIKING, MIN_FAMILIARITY,
     user_group_ids, user_ratings, dimensions, top_n, sliders, pc, message, warning,
     selected_inv_cov_matrix, distances, top_indices, closest_sounds,
     correlations_csv, ratings_std, std_diag_matrix, corr_matrix, covariance,
     row, id_position, total_liking, total_familiarity, count_liking,
     count_familiarity, average_liking, average_familiarity,
     groupID_data, checked, filtered_data, param_position,
     closest_sounds_euclidean, closest_sounds_mahalanobis, Display_Euclidean_Sounds,
     euc_audio_num, mah_audio_num, rank_label >>

\* the steps of the covariance set-up, followed on their own below
setup == << correlations_csv, ratings_std, std_diag_matrix, corr_matrix, covariance >>
\* the call of calculate_scores, followed on its own below
totals == << total_liking, total_familiarity, count_liking, count_familiarity >>
averages == << average_liking, average_familiarity >>
scoring == << row, id_position, totals, averages >>
\* the call of get_user_group_ids, followed on its own below
grouping == << groupID_data, checked, filtered_data, param_position >>
\* the display loops of display_results, followed on their own below
shown == << closest_sounds_euclidean, closest_sounds_mahalanobis, Display_Euclidean_Sounds >>
display == << shown, euc_audio_num, mah_audio_num, rank_label >>
apart == << setup, scoring, grouping, display >>

\* the display loops are not followed
NoDisplay ==
  /\ closest_sounds_euclidean = << >>
  /\ closest_sounds_mahalanobis = << >>
  /\ Display_Euclidean_Sounds = FALSE
  /\ euc_audio_num = 0
  /\ mah_audio_num = 0
  /\ rank_label = ""

\* get_user_group_ids is not followed
NoGrouping ==
  /\ groupID_data = << >>
  /\ checked = << >>
  /\ filtered_data = << >>
  /\ param_position = 0
reference ==
  << version, tie_order, data_columns, final_combined_data, cov_matrix, apart >>
loaded == << inv_cov_matrix, inversions >>
session == << MIN_LIKING, MIN_FAMILIARITY >>
query == << user_group_ids, user_ratings, dimensions, top_n, sliders >>

\* a script run is about to start: the reference files are what they are,
\* nothing is loaded yet (inv_cov_matrix is None), the session thresholds are
\* 0, nothing is selected. The build that leaves equal keys in descending
\* order is run on the catalog that starts at the first row of the list. A
\* header of the declared length with a column
\* missing is given to v2.0/v3.0, whose queries read the median ratings file
\* itself
Init ==
  /\ version \in Versions
  /\ tie_order \in TieOrders
  /\ tie_order = "descending" => final_combined_data = CatalogOfTies
  /\ data_columns \in Headers
  /\ (Len(data_columns) = Len(DeclaredColumns) /\ data_columns # DeclaredColumns)
       => version = "v3"
  /\ final_combined_data \in Catalogs
  /\ cov_matrix \in CovarianceMatrices
  /\ inv_cov_matrix = << >>
  /\ inversions = 0
  /\ MIN_LIKING = 0
  /\ MIN_FAMILIARITY = 0
  /\ user_group_ids = << >>
  /\ user_ratings = << >>
  /\ dimensions = << >>
  /\ top_n = 1
  /\ sliders = << >>
  /\ pc = "idle"
  /\ message = ""
  /\ warning = 0
  /\ selected_inv_cov_matrix = << >>
  /\ distances = << >>
  /\ top_indices = << >>
  /\ closest_sounds = << >>
  /\ correlations_csv = << >>
  /\ ratings_std = << >>
  /\ std_diag_matrix = << >>
  /\ corr_matrix = << >>
  /\ covariance = << >>
  /\ row = << >>
  /\ id_position = 0
  /\ total_liking = 0
  /\ total_familiarity = 0
  /\ count_liking = 0
  /\ count_familiarity = 0
  /\ average_liking = 0
  /\ average_familiarity = 0
  /\ NoGrouping
  /\ NoDisplay

NoResult ==
  /\ selected_inv_cov_matrix' = << >>
  /\ distances' = << >>
  /\ top_indices' = << >>
  /\ closest_sounds' = << >>
  /\ warning' = 0

\* std_diag_matrix has one row per column of data.columns[4:23] and the
\* correlation table one per dimension: the product
\* std_diag_matrix @ corr_matrix @ std_diag_matrix raises when they differ
ShapeMismatch == Len(load_median_data(data_columns)) # NumRatingColumns

\* a load that inverts the product a second time
load_and_prepare_data_InvertsTwice ==
  IF ShapeMismatch
    THEN UNCHANGED loaded
    ELSE /\ inversions' = inversions + 2
         /\ inv_cov_matrix' =
              IF Singular(cov_matrix) THEN inv_cov_matrix ELSE inv(cov_matrix)

\* load_and_prepare_data (v3.0: the module-level load): the one call of
\* np.linalg.inv, on the product; it raises for a singular matrix and the
\* script run ends there, otherwise its result is cached
load_and_prepare_data ==
  IF ShapeMismatch
    THEN UNCHANGED loaded
    ELSE /\ inversions' = inversions + 1
         /\ inv_cov_matrix' =
              IF Singular(cov_matrix) THEN inv_cov_matrix ELSE inv(cov_matrix)

ValueError ==
  /\ ShapeMismatch
  /\ pc' = "ValueError"
  /\ message' = ""
  /\ NoResult
  /\ UNCHANGED << session, query >>

LinAlgError ==
  /\ ~ShapeMismatch
  /\ Singular(cov_matrix)
  /\ pc' = "LinAlgError"
  /\ message' = ""
  /\ NoResult
  /\ UNCHANGED << session, query >>

\* no dimension is selected and display_results is called all the same
NoDimension_Queries(text) ==
  /\ dimensions' = << >>
  /\ user_ratings' = << >>
  /\ top_n' = 1
  /\ sliders' = << >>
  /\ message' = text
  /\ pc' = "display_results"
  /\ NoResult
  /\ UNCHANGED session

\* no dimension is selected: the message is shown and the run ends without a
\* query
NoDimension(text) ==
  /\ dimensions' = << >>
  /\ user_ratings' = << >>
  /\ top_n' = 1
  /\ sliders' = << >>
  /\ message' = text
  /\ pc' = "no_query"
  /\ NoResult
  /\ UNCHANGED session

\* the two sliders are drawn and the thresholds of the session keep the
\* values they had
set_thresholds_Kept(min_liking, min_familiarity) ==
  /\ sliders' = << min_liking, min_familiarity >>
  /\ UNCHANGED session

\* v10.0 lines 752-753 (v9.0 lines 684-685): the two sliders are drawn and
\* their values are assigned to the thresholds of the session
set_thresholds(min_liking, min_familiarity) ==
  /\ sliders' = << min_liking, min_familiarity >>
  /\ MIN_LIKING' = min_liking
  /\ MIN_FAMILIARITY' = min_familiarity

\* ------------------------------------------------------------ script runs
\* v10.0 run(): the load, the group ids, the selected dimensions and their
\* ratings, the top_n slider and the two threshold sliders, then
\* display_results
run_v10 ==
  /\ pc = "idle" /\ version = "v10"
  /\ load_and_prepare_data
  /\ \/ ValueError
     \/ LinAlgError
     \/ /\ ~ShapeMismatch
        /\ ~Singular(cov_matrix)
        /\ \E ids \in GroupLists :
             /\ user_group_ids' = ids
             /\ \/ NoDimension("Please Select At Least One Dimension")
                \/ \E dims \in DimensionLists, n \in 1 .. MaxTopN,
                      min_liking \in Thresholds, min_familiarity \in Thresholds :
                     \E ratings \in RatingLists(Len(dims)) :
                       /\ dimensions' = dims
                       /\ user_ratings' = ratings
                       /\ top_n' = n
                       /\ set_thresholds(min_liking, min_familiarity)
                       /\ message' = ""
                       /\ pc' = "display_results"
                       /\ NoResult
  /\ UNCHANGED reference

\* v9.0 run(): as v10.0
run_v9 ==
  /\ pc = "idle" /\ version = "v9"
  /\ load_and_prepare_data
  /\ \/ ValueError
     \/ LinAlgError
     \/ /\ ~ShapeMismatch
        /\ ~Singular(cov_matrix)
        /\ \E ids \in GroupLists :
             /\ user_group_ids' = ids
             /\ \/ NoDimension("Please Select At Least One Dimension")
                \/ \E dims \in DimensionLists, n \in 1 .. MaxTopN,
                      min_liking \in Thresholds, min_familiarity \in Thresholds :
                     \E ratings \in RatingLists(Len(dims)) :
                       /\ dimensions' = dims
                       /\ user_ratings' = ratings
                       /\ top_n' = n
                       /\ set_thresholds(min_liking, min_familiarity)
                       /\ message' = ""
                       /\ pc' = "display_results"
                       /\ NoResult
  /\ UNCHANGED reference

\* v5.0 run(): no threshold sliders
run_v5 ==
  /\ pc = "idle" /\ version = "v5"
  /\ load_and_prepare_data
  /\ \/ ValueError
     \/ LinAlgError
     \/ /\ ~ShapeMismatch
        /\ ~Singular(cov_matrix)
        /\ \E ids \in GroupLists :
             /\ user_group_ids' = ids
             /\ \/ NoDimension("Please select at least one dimension.")
                \/ \E dims \in DimensionLists, n \in 1 .. MaxTopN :
                     \E ratings \in RatingLists(Len(dims)) :
                       /\ dimensions' = dims
                       /\ user_ratings' = ratings
                       /\ top_n' = n
                       /\ sliders' = << >>
                       /\ message' = "Please select the number of sounds to be displayed."
                       /\ pc' = "display_results"
                       /\ NoResult
                       /\ UNCHANGED session
  /\ UNCHANGED reference

\* v2.0/v3.0 module level: the load, the selected dimensions and their
\* ratings; there are no groups and a single sound is asked for
run_v3 ==
  /\ pc = "idle" /\ version = "v3"
  /\ load_and_prepare_data
  /\ \/ ValueError
     \/ LinAlgError
     \/ /\ ~ShapeMismatch
        /\ ~Singular(cov_matrix)
        /\ user_group_ids' = << >>
        /\ \/ NoDimension("Please select at least 1 dimension.")
           \/ \E dims \in DimensionLists :
                \E ratings \in RatingLists(Len(dims)) :
                  /\ dimensions' = dims
                  /\ user_ratings' = ratings
                  /\ top_n' = 1
                  /\ sliders' = << >>
                  /\ message' = ""
                  /\ pc' = "display_results"
                  /\ NoResult
                  /\ UNCHANGED session
  /\ UNCHANGED reference

\* ------------------------------------------------------ distance queries
\* display_results calls the Euclidean function first and the Mahalanobis
\* function second, with the same arguments; each step below is the call
\* with what display_results shows for it

\* st.warning(f"Cannot Display {top_n - len(closest_sounds)} Additional
\* Sound(s) With Current Weights") when fewer than top_n sounds came back
Shortfall(sounds, n) == IF Len(sounds) < n THEN n - Len(sounds) ELSE 0

\* the Euclidean call of v10.0 with a sort that leaves equal keys in a
\* different order from call to call
find_closest_sounds_euclidean_v10_AnyTieOrder ==
  /\ pc = "display_results" /\ version = "v10"
  /\ selected_inv_cov_matrix' = << >>
  /\ distances' = EuclideanDistances(final_combined_data, dimensions, user_ratings)
  /\ top_indices' \in argsort(distances')
  /\ closest_sounds' = TopSounds_v10(final_combined_data, top_indices', user_group_ids,
                                   MIN_LIKING, MIN_FAMILIARITY, top_n)
  /\ \E Euclidean_Display_Check \in BOOLEAN :
       warning' = IF Euclidean_Display_Check THEN Shortfall(closest_sounds', top_n) ELSE 0
  /\ pc' = "euclidean"
  /\ UNCHANGED << reference, loaded, session, query, message >>

\* v10.0 lines 304-335 and 569-581: the warning is inside the branch of the
\* "Display Euclidean Sounds?" checkbox
find_closest_sounds_euclidean_v10 ==
  /\ pc = "display_results" /\ version = "v10"
  /\ selected_inv_cov_matrix' = << >>
  /\ distances' = EuclideanDistances(final_combined_data, dimensions, user_ratings)
  /\ top_indices' = argsort_of(tie_order, distances')
  /\ closest_sounds' = TopSounds_v10(final_combined_data, top_indices', user_group_ids,
                                   MIN_LIKING, MIN_FAMILIARITY, top_n)
  /\ \E Euclidean_Display_Check \in BOOLEAN :
       warning' = IF Euclidean_Display_Check THEN Shortfall(closest_sounds', top_n) ELSE 0
  /\ pc' = "euclidean"
  /\ UNCHANGED << reference, loaded, session, query, message >>

\* the Mahalanobis call of v10.0 writing the differences row - user_ratings
\* of the first row back into the table
find_closest_sounds_mahalanobis_v10_InPlace ==
  /\ pc = "euclidean" /\ version = "v10"
  /\ selected_inv_cov_matrix' = ix_(inv_cov_matrix, SelectedRows_index(dimensions))
  /\ distances' = MahalanobisDistances(final_combined_data, dimensions, user_ratings,
                                       selected_inv_cov_matrix')
  /\ top_indices' = argsort_of(tie_order, distances')
  /\ closest_sounds' = TopSounds_v10(final_combined_data, top_indices', user_group_ids,
                                   MIN_LIKING, MIN_FAMILIARITY, top_n)
  /\ warning' = Shortfall(closest_sounds', top_n)
  /\ pc' = "mahalanobis"
  /\ final_combined_data' =
       [final_combined_data EXCEPT ![0] =
          [c \in Columns |->
             IF c \in Range(dimensions) /\ ~isna(final_combined_data[0][c])
             THEN final_combined_data[0][c] - user_ratings[IndexOf(dimensions, c) + 1]
             ELSE final_combined_data[0][c]]]
  /\ UNCHANGED << version, tie_order, data_columns, cov_matrix, apart, loaded, session,
                  query, message >>

\* v10.0 lines 338-382 and 584-593
find_closest_sounds_mahalanobis_v10 ==
  /\ pc = "euclidean" /\ version = "v10"
  /\ selected_inv_cov_matrix' = ix_(inv_cov_matrix, SelectedRows_index(dimensions))
  /\ distances' = MahalanobisDistances(final_combined_data, dimensions, user_ratings,
                                       selected_inv_cov_matrix')
  /\ top_indices' = argsort_of(tie_order, distances')
  /\ closest_sounds' = TopSounds_v10(final_combined_data, top_indices', user_group_ids,
                                   MIN_LIKING, MIN_FAMILIARITY, top_n)
  /\ warning' = Shortfall(closest_sounds', top_n)
  /\ pc' = "mahalanobis"
  /\ UNCHANGED << reference, loaded, session, query, message >>

\* v9.0 lines 288-317; display_results has no shortfall warning
find_closest_sounds_euclidean_v9 ==
  /\ pc = "display_results" /\ version = "v9"
  /\ selected_inv_cov_matrix' = << >>
  /\ distances' = EuclideanDistances(final_combined_data, dimensions, user_ratings)
  /\ top_indices' = argsort_of(tie_order, distances')
  /\ closest_sounds' = TopSounds_v9(final_combined_data, top_indices', user_group_ids,
                                  MIN_LIKING, MIN_FAMILIARITY, top_n)
  /\ warning' = 0
  /\ pc' = "euclidean"
  /\ UNCHANGED << reference, loaded, session, query, message >>

\* v9.0 lines 320-362
find_closest_sounds_mahalanobis_v9 ==
  /\ pc = "euclidean" /\ version = "v9"
  /\ selected_inv_cov_matrix' = ix_(inv_cov_matrix, SelectedRows_index(dimensions))
  /\ distances' = MahalanobisDistances(final_combined_data, dimensions, user_ratings,
                                       selected_inv_cov_matrix')
  /\ top_indices' = argsort_of(tie_order, distances')
  /\ closest_sounds' = TopSounds_v9(final_combined_data, top_indices', user_group_ids,
                                  MIN_LIKING, MIN_FAMILIARITY, top_n)
  /\ warning' = 0
  /\ pc' = "mahalanobis"
  /\ UNCHANGED << reference, loaded, session, query, message >>

\* v5.0 lines 170-194
find_closest_sounds_euclidean_v5 ==
  /\ pc = "display_results" /\ version = "v5"
  /\ selected_inv_cov_matrix' = << >>
  /\ distances' = EuclideanDistances(final_combined_data, dimensions, user_ratings)
  /\ top_indices' = argsort_of(tie_order, distances')
  /\ closest_sounds' = TopSounds_v5(final_combined_data, top_indices', user_group_ids, top_n)
  /\ warning' = 0
  /\ pc' = "euclidean"
  /\ UNCHANGED << reference, loaded, session, query, message >>

\* v5.0 lines 197-234
find_closest_sounds_mahalanobis_v5 ==
  /\ pc = "euclidean" /\ version = "v5"
  /\ selected_inv_cov_matrix' = ix_(inv_cov_matrix, SelectedRows_index(dimensions))
  /\ distances' = MahalanobisDistances(final_combined_data, dimensions, user_ratings,
                                       selected_inv_cov_matrix')
  /\ top_indices' = argsort_of(tie_order, distances')
  /\ closest_sounds' = TopSounds_v5(final_combined_data, top_indices', user_group_ids, top_n)
  /\ warning' = 0
  /\ pc' = "mahalanobis"
  /\ UNCHANGED << reference, loaded, session, query, message >>

\* data[dimensions] raises when a selected dimension is no column of data
KeyError == \E d \in Range(dimensions) : d \notin Range(data_columns)

\* v3.0 lines 61-72 (v2.0 lines 41-52): the single closest sound
find_closest_sound_euclidean_v3 ==
  /\ pc = "display_results" /\ version = "v3"
  /\ IF KeyError
       THEN /\ pc' = "KeyError"
            /\ NoResult
       ELSE /\ selected_inv_cov_matrix' = << >>
            /\ distances' = EuclideanDistances(final_combined_data, dimensions, user_ratings)
            /\ top_indices' = << >>
            /\ closest_sounds' = << argmin(distances') >>
            /\ warning' = 0
            /\ pc' = "euclidean"
  /\ UNCHANGED << reference, loaded, session, query, message >>

\* v3.0 lines 75-99 (v2.0 lines 55-78)
find_closest_sound_mahalanobis_v3 ==
  /\ pc = "euclidean" /\ version = "v3"
  /\ selected_inv_cov_matrix' = ix_(inv_cov_matrix, SelectedRows_get_loc(dimensions))
  /\ distances' = MahalanobisDistances(final_combined_data, dimensions, user_ratings,
                                       selected_inv_cov_matrix')
  /\ top_indices' = << >>
  /\ closest_sounds' = << argmin(distances') >>
  /\ warning' = 0
  /\ pc' = "mahalanobis"
  /\ UNCHANGED << reference, loaded, session, query, message >>

\* the script run has ended (after the Mahalanobis result, after a run without
\* a query, or with the exception of the load); the next widget interaction
\* reruns the script from its first line: a new SomunicateApp (v2.0/v3.0: the
\* module level again) with the session state kept
rerun ==
  /\ pc \in {"mahalanobis", "no_query", "ValueError", "LinAlgError", "KeyError"}
  /\ pc' = "idle"
  /\ inv_cov_matrix' = << >>
  /\ inversions' = 0
  /\ user_group_ids' = << >>
  /\ user_ratings' = << >>
  /\ dimensions' = << >>
  /\ top_n' = 1
  /\ sliders' = << >>
  /\ message' = ""
  /\ NoResult
  /\ UNCHANGED << reference, session >>

Next ==
  \/ run_v10
  \/ run_v9
  \/ run_v5
  \/ run_v3
  \/ find_closest_sounds_euclidean_v10
  \/ find_closest_sounds_mahalanobis_v10
  \/ find_closest_sounds_euclidean_v9
  \/ find_closest_sounds_mahalanobis_v9
  \/ find_closest_sounds_euclidean_v5
  \/ find_closest_sounds_mahalanobis_v5
  \/ find_closest_sound_euclidean_v3
  \/ find_closest_sound_mahalanobis_v3
  \/ rerun

Spec == Init /\ [][Next]_vars

\* ------------------------------------------------- the covariance set-up
\* lines 393-395 of load_and_prepare_data on their own, with the numbers of
\* the two files kept: a correlation and a rescaled correlation are counted
\* in quarters (ONE is 1.0), a standard deviation in whole units, a
\* covariance in quarters

\* the correlations the file can hold for two different dimensions
Correlations == {0, 2, 3, ONE}

\* correlations.csv after pd.to_numeric: one row per dimension, the label
\* column (not a number: NaN) and then the correlation with every dimension;
\* 1.0 with itself, and for two dimensions a value by how far apart they are
CorrelationFiles ==
  { [i \in MatrixIndex |->
       << NaN >> \o [j \in 1 .. NumRatingColumns |->
                      IF j - 1 = i THEN ONE
                      ELSE by_distance[IF j - 1 > i THEN j - 1 - i ELSE i - (j - 1)]]] :
      by_distance \in [1 .. (NumRatingColumns - 1) -> Correlations] }

\* the standard deviations of the rating columns
StdDeviations == [MatrixIndex -> {1, 2}]

\* np.diag(values)
diag(values) ==
  [i \in MatrixIndex |-> [j \in MatrixIndex |-> IF i = j THEN values[i] ELSE 0]]

\* the correlation table taken over as it is
corr_matrix_setup_NotRescaled(csv) ==
  [i \in MatrixIndex |-> [j \in MatrixIndex |-> csv[i][j + 2]]]

\* load_correlation_data(corr_path).iloc[:, 1:].to_numpy(), then
\* (corr_matrix * 2) - 1
corr_matrix_setup(csv) ==
  [i \in MatrixIndex |-> [j \in MatrixIndex |-> (csv[i][j + 2] * 2) - ONE]]

InitSetup ==
  /\ version = "v10"
  /\ tie_order = "ascending"
  /\ data_columns = DeclaredColumns
  /\ final_combined_data = CatalogOfTies
  /\ cov_matrix = << >>
  /\ inv_cov_matrix = << >>
  /\ inversions = 0
  /\ MIN_LIKING = 0
  /\ MIN_FAMILIARITY = 0
  /\ user_group_ids = << >>
  /\ user_ratings = << >>
  /\ dimensions = << >>
  /\ top_n = 1
  /\ sliders = << >>
  /\ pc = "idle"
  /\ message = ""
  /\ warning = 0
  /\ selected_inv_cov_matrix = << >>
  /\ distances = << >>
  /\ top_indices = << >>
  /\ closest_sounds = << >>
  /\ correlations_csv \in CorrelationFiles
  /\ ratings_std \in StdDeviations
  /\ std_diag_matrix = << >>
  /\ corr_matrix = << >>
  /\ covariance = << >>
  /\ row = << >>
  /\ id_position = 0
  /\ total_liking = 0
  /\ total_familiarity = 0
  /\ count_liking = 0
  /\ count_familiarity = 0
  /\ average_liking = 0
  /\ average_familiarity = 0
  /\ NoGrouping
  /\ NoDisplay

query_state ==
  << version, tie_order, data_columns, final_combined_data, cov_matrix, loaded, session,
     query, message, warning, selected_inv_cov_matrix, distances, top_indices,
     closest_sounds, scoring, grouping, display >>

\* line 393: std_diag_matrix = self.std_matrix_setup(self.rating_columns)
std_matrix_setup ==
  /\ pc = "idle"
  /\ std_diag_matrix' = diag(ratings_std)
  /\ pc' = "std_matrix_setup"
  /\ UNCHANGED << correlations_csv, ratings_std, corr_matrix, covariance, query_state >>

\* line 394: corr_matrix = self.corr_matrix_setup(corr_path)
corr_matrix_setup_call ==
  /\ pc = "std_matrix_setup"
  /\ corr_matrix' = corr_matrix_setup(correlations_csv)
  /\ pc' = "corr_matrix_setup"
  /\ UNCHANGED << correlations_csv, ratings_std, std_diag_matrix, covariance, query_state >>

\* line 395: the argument of np.linalg.inv
covariance_product ==
  /\ pc = "corr_matrix_setup"
  /\ covariance' = matmul(matmul(std_diag_matrix, corr_matrix), std_diag_matrix)
  /\ pc' = "covariance"
  /\ UNCHANGED << correlations_csv, ratings_std, std_diag_matrix, corr_matrix, query_state >>

NextSetup ==
  \/ std_matrix_setup
  \/ corr_matrix_setup_call
  \/ covariance_product

SpecSetup == InitSetup /\ [][NextSetup]_vars

\* --------------------------------------------------- the reported scores
\* AudioScoreCalculator.calculate_scores on its own, on a row of the catalog
\* and a group list, and the filter of v10.0 on the same row. The scores of
\* the catalog file are floats: here a score, a threshold and an average are
\* counted in halves (ONE_SCORE is 1.0), so that 49.5 and 50.5 are exact.
ONE_SCORE == 2

\* int(x) for a float x: the whole number towards zero
int(x) ==
  IF x >= 0 THEN (x \div ONE_SCORE) * ONE_SCORE
  ELSE -(((-x) \div ONE_SCORE) * ONE_SCORE)

\* total // count on whole numbers: the floor of the quotient
floordiv(total, count) == ((total \div ONE_SCORE) \div count) * ONE_SCORE

\* row.get(key, default)
get(r, key, default) == IF key \in DOMAIN r THEN r[key] ELSE default

\* the rows calculate_scores is tried on: 50.5 and 49.5; 100 throughout;
\* undefined scores; -0.5 and 1.5; a row of a file without the column "2";
\* 50 and 50.5 against 0 and 100
ScoreRows ==
  LET ratings == [c \in MatrixIndex |-> 0]
      full == CatalogRow(ratings, 100 * ONE_SCORE, 100 * ONE_SCORE,
                         100 * ONE_SCORE, 100 * ONE_SCORE)
  IN  { CatalogRow(ratings, 101, 99, 100 * ONE_SCORE, 100 * ONE_SCORE),
        full,
        CatalogRow(ratings, NaN, 50 * ONE_SCORE, 50 * ONE_SCORE, NaN),
        CatalogRow(ratings, -1, 0, 3, 3),
        [c \in Columns \ {str(2)} |-> full[c]],
        CatalogRow(ratings, 50 * ONE_SCORE, 101, 0, 100 * ONE_SCORE) }

InitScores ==
  /\ version = "v10"
  /\ tie_order = "ascending"
  /\ data_columns = DeclaredColumns
  /\ final_combined_data = CatalogOfTies
  /\ cov_matrix = << >>
  /\ inv_cov_matrix = << >>
  /\ inversions = 0
  /\ MIN_LIKING \in { t * ONE_SCORE : t \in Thresholds }
  /\ MIN_FAMILIARITY \in { t * ONE_SCORE : t \in Thresholds }
  /\ user_group_ids \in GroupLists
  /\ user_ratings = << >>
  /\ dimensions = << >>
  /\ top_n = 1
  /\ sliders = << MIN_LIKING, MIN_FAMILIARITY >>
  /\ pc = "calculate_scores"
  /\ message = ""
  /\ warning = 0
  /\ selected_inv_cov_matrix = << >>
  /\ distances = << >>
  /\ top_indices = << >>
  /\ closest_sounds = << >>
  /\ correlations_csv = << >>
  /\ ratings_std = << >>
  /\ std_diag_matrix = << >>
  /\ corr_matrix = << >>
  /\ covariance = << >>
  /\ row \in ScoreRows
  /\ id_position = 0
  /\ total_liking = 0
  /\ total_familiarity = 0
  /\ count_liking = 0
  /\ count_familiarity = 0
  /\ average_liking = 0
  /\ average_familiarity = 0
  /\ NoGrouping
  /\ NoDisplay

scoring_frame ==
  << version, tie_order, data_columns, final_combined_data, cov_matrix, loaded, session,
     query, message, warning, selected_inv_cov_matrix, distances, top_indices, setup,
     grouping, display >>

\* the loop body with an undefined score left out of the count
calculate_scores_for_SkipsUndefined ==
  /\ pc = "calculate_scores"
  /\ id_position < Len(user_group_ids)
  /\ LET id == user_group_ids[id_position + 1]
         current_liking == get(row, str(id), 0)
         current_familiarity == get(row, str(id + 12), 0)
     IN  /\ total_liking' = total_liking +
                            (IF isna(current_liking) THEN 0 ELSE int(current_liking))
         /\ count_liking' = count_liking + (IF isna(current_liking) THEN 0 ELSE 1)
         /\ total_familiarity' = total_familiarity +
                                 (IF isna(current_familiarity) THEN 0 ELSE int(current_familiarity))
         /\ count_familiarity' = count_familiarity +
                                 (IF isna(current_familiarity) THEN 0 ELSE 1)
  /\ id_position' = id_position + 1
  /\ UNCHANGED << pc, row, averages, closest_sounds, scoring_frame >>

\* lines 33-46: one turn of "for id in self.user_group_ids"
calculate_scores_for ==
  /\ pc = "calculate_scores"
  /\ id_position < Len(user_group_ids)
  /\ LET id == user_group_ids[id_position + 1]
         current_liking == get(row, str(id), 0)
         current_familiarity == get(row, str(id + 12), 0)
     IN  /\ total_liking' = total_liking +
                            (IF isna(current_liking) THEN 0 ELSE int(current_liking))
         /\ count_liking' = count_liking + 1
         /\ total_familiarity' = total_familiarity +
                                 (IF isna(current_familiarity) THEN 0 ELSE int(current_familiarity))
         /\ count_familiarity' = count_familiarity + 1
  /\ id_position' = id_position + 1
  /\ UNCHANGED << pc, row, averages, closest_sounds, scoring_frame >>

\* lines 48-52: the two averages after the loop
calculate_scores_return ==
  /\ pc = "calculate_scores"
  /\ id_position = Len(user_group_ids)
  /\ average_liking' =
       IF count_liking > 0 THEN floordiv(total_liking, count_liking) ELSE 0
  /\ average_familiarity' =
       IF count_familiarity > 0 THEN floordiv(total_familiarity, count_familiarity) ELSE 0
  /\ pc' = "calculate_scores_return"
  /\ UNCHANGED << row, id_position, totals, closest_sounds, scoring_frame >>

\* lines 316-335 on the catalog of this one row: the row is returned if it
\* passes; final_combined_data.iloc[index][str(group_id)] of a column the
\* file does not have is a KeyError
filter_row ==
  /\ pc = "calculate_scores_return"
  /\ IF \E k \in DOMAIN user_group_ids :
          {str(user_group_ids[k]), str(user_group_ids[k] + 12)} \ DOMAIN row # {}
     THEN /\ pc' = "KeyError"
          /\ closest_sounds' = << >>
     ELSE /\ pc' = "filtered"
          /\ closest_sounds' = TopSounds_v10([i \in {0} |-> row], << 0 >>, user_group_ids,
                                             MIN_LIKING, MIN_FAMILIARITY, 1)
  /\ UNCHANGED << scoring, scoring_frame >>

NextScores ==
  \/ calculate_scores_for
  \/ calculate_scores_return
  \/ filter_row

SpecScores == InitScores /\ [][NextScores]_vars

\* ------------------------------------------------ the demographic groups
\* get_user_group_ids on its own, on a group table and the values of the
\* checkboxes
groupID_params == << "Gender", "Migration Background", "Age" >>
params ==
  [param \in Range(groupID_params) |->
     IF param = "Gender" THEN << "Female", "Male" >>
     ELSE IF param = "Migration Background"
          THEN << "Migration Background", "No Migration Background" >>
     ELSE << "Age Group 1", "Age Group 2", "Age Group 3" >>]

\* the labels the checkboxes are kept under: the options and "Non-Binary"
Checkboxes ==
  UNION { Range(params[param]) : param \in Range(groupID_params) } \cup {"Non-Binary"}

GroupRow(id, gender, migration, age) ==
  [column \in {"Group ID", "Gender", "Migration Background", "Age"} |->
     IF column = "Group ID" THEN id
     ELSE IF column = "Gender" THEN gender
     ELSE IF column = "Migration Background" THEN migration
     ELSE age]

\* the group files: one with a row for every combination of the options, the
\* ids in order; a short one with the ids out of order and a gender that is
\* not an option
GroupTables ==
  { [g \in 1 .. NUM_DEMOGRAPHIC_GROUPS |->
       GroupRow(g,
                params["Gender"][((g - 1) \div 6) + 1],
                params["Migration Background"][(((g - 1) \div 3) % 2) + 1],
                params["Age"][((g - 1) % 3) + 1])],
    << GroupRow(7, "Male", "Migration Background", "Age Group 1"),
       GroupRow(3, "Female", "Migration Background", "Age Group 3"),
       GroupRow(5, "Non-Binary", "No Migration Background", "Age Group 2") >> }

InitGroups ==
  /\ version = "v10"
  /\ tie_order = "ascending"
  /\ data_columns = DeclaredColumns
  /\ final_combined_data = CatalogOfTies
  /\ cov_matrix = << >>
  /\ inv_cov_matrix = << >>
  /\ inversions = 0
  /\ MIN_LIKING = 0
  /\ MIN_FAMILIARITY = 0
  /\ user_group_ids = << >>
  /\ user_ratings = << >>
  /\ dimensions = << >>
  /\ top_n = 1
  /\ sliders = << >>
  /\ pc = "get_user_group_ids"
  /\ message = ""
  /\ warning = 0
  /\ selected_inv_cov_matrix = << >>
  /\ distances = << >>
  /\ top_indices = << >>
  /\ closest_sounds = << >>
  /\ correlations_csv = << >>
  /\ ratings_std = << >>
  /\ std_diag_matrix = << >>
  /\ corr_matrix = << >>
  /\ covariance = << >>
  /\ row = << >>
  /\ id_position = 0
  /\ total_liking = 0
  /\ total_familiarity = 0
  /\ count_liking = 0
  /\ count_familiarity = 0
  /\ average_liking = 0
  /\ average_familiarity = 0
  /\ groupID_data \in GroupTables
  /\ checked \in [Checkboxes -> BOOLEAN]
  /\ filtered_data = groupID_data
  /\ param_position = 0
  /\ NoDisplay

grouping_frame ==
  << version, tie_order, data_columns, final_combined_data, cov_matrix, loaded, session,
     user_ratings, dimensions, top_n, sliders, message, warning, selected_inv_cov_matrix,
     distances, top_indices, closest_sounds, setup, scoring, groupID_data, checked,
     display >>

\* the options of a parameter whose checkbox is checked
selected_params(param) == { option \in Range(params[param]) : checked[option] }

\* the turn of the filter loop with isin applied to an empty selection too
filter_by_param_EmptySelects ==
  /\ pc = "get_user_group_ids"
  /\ param_position < Len(groupID_params)
  /\ LET param == groupID_params[param_position + 1]
         selected_options == selected_params(param)
         isin(r) == r[param] \in selected_options
     IN  filtered_data' = SelectSeq(filtered_data, isin)
  /\ param_position' = param_position + 1
  /\ UNCHANGED << pc, user_group_ids, grouping_frame >>

\* lines 452-455: one turn of "for param in groupID_params"
filter_by_param ==
  /\ pc = "get_user_group_ids"
  /\ param_position < Len(groupID_params)
  /\ LET param == groupID_params[param_position + 1]
         selected_options == selected_params(param)
         isin(r) == r[param] \in selected_options
     IN  filtered_data' = IF selected_options # {}
                          THEN SelectSeq(filtered_data, isin)
                          ELSE filtered_data
  /\ param_position' = param_position + 1
  /\ UNCHANGED << pc, user_group_ids, grouping_frame >>

\* lines 458-464: self.user_group_ids = filtered_data['Group ID'].tolist()
collect_group_ids ==
  /\ pc = "get_user_group_ids"
  /\ param_position = Len(groupID_params)
  /\ user_group_ids' = [k \in DOMAIN filtered_data |-> filtered_data[k]["Group ID"]]
  /\ pc' = "user_group_ids"
  /\ UNCHANGED << filtered_data, param_position, grouping_frame >>

NextGroups ==
  \/ filter_by_param
  \/ collect_group_ids

SpecGroups == InitGroups /\ [][NextGroups]_vars

\* ------------------------------------------------------ the display loops
\* lines 597-668 and 722 of display_results on their own, with the range of
\* the "Display Sound(s)" slider and a catalog longer than it: the two
\* results are what the filter loop leaves of a ranking, the loops count the
\* sounds they show and read the label of the count
NumListed == 13
TOP_N_MAX == 10

\* the slider of line 750 with 11 as its largest value
TopNValues_UpTo11 == 1 .. (TOP_N_MAX + 1)

\* line 750: st.slider("Display Sound(s)", min_value=1, max_value=10, step=1)
TopNValues == 1 .. TOP_N_MAX

\* lines 551-562
audio_closeness_display ==
  << "(1st Closest)", "(2nd Closest)", "(3rd Closest)", "(4th Closest)",
     "(5th Closest)", "(6th Closest)", "(7th Closest)", "(8th Closest)",
     "(9th Closest)", "(10th Closest)" >>

Listed == 0 .. (NumListed - 1)

\* a catalog of NumListed rows: the first two rows of the list in turn, every
\* sixth row the one without a liking of group 1
ListedCatalog ==
  [i \in Listed |-> IF i % 6 = 5 THEN CatalogRows[3] ELSE CatalogRows[(i % 2) + 1]]

\* the rankings of the catalog a query can come to: by row index, upwards or
\* downwards
Rankings ==
  { [p \in 1 .. NumListed |-> p - 1], [p \in 1 .. NumListed |-> NumListed - p] }

\* a ranking read from its end
backwards(ranking) == [p \in DOMAIN ranking |-> ranking[Len(ranking) + 1 - p]]

InitDisplay ==
  /\ version = "v10"
  /\ tie_order = "ascending"
  /\ data_columns = DeclaredColumns
  /\ final_combined_data = ListedCatalog
  /\ cov_matrix = << >>
  /\ inv_cov_matrix = << >>
  /\ inversions = 0
  /\ MIN_LIKING \in Thresholds
  /\ MIN_FAMILIARITY \in Thresholds
  /\ user_group_ids \in GroupLists
  /\ user_ratings = << >>
  /\ dimensions = << >>
  /\ top_n \in TopNValues
  /\ sliders = << MIN_LIKING, MIN_FAMILIARITY >>
  /\ pc = "display_results"
  /\ message = ""
  /\ warning = 0
  /\ selected_inv_cov_matrix = << >>
  /\ distances = << >>
  /\ top_indices \in Rankings
  /\ closest_sounds = << >>
  /\ correlations_csv = << >>
  /\ ratings_std = << >>
  /\ std_diag_matrix = << >>
  /\ corr_matrix = << >>
  /\ covariance = << >>
  /\ row = << >>
  /\ id_position = 0
  /\ total_liking = 0
  /\ total_familiarity = 0
  /\ count_liking = 0
  /\ count_familiarity = 0
  /\ average_liking = 0
  /\ average_familiarity = 0
  /\ NoGrouping
  /\ NoDisplay

display_frame ==
  << version, tie_order, data_columns, final_combined_data, cov_matrix, loaded, session,
     query, message, warning, selected_inv_cov_matrix, distances, top_indices,
     closest_sounds, setup, scoring, grouping >>

\* lines 569-593: the two calls (their filter loops over the Euclidean ranking
\* and over the Mahalanobis ranking, here the Euclidean one read backwards)
\* and the checkbox
display_results ==
  /\ pc = "display_results"
  /\ closest_sounds_euclidean' =
       TopSounds_v10(final_combined_data, top_indices, user_group_ids,
                     MIN_LIKING, MIN_FAMILIARITY, top_n)
  /\ closest_sounds_mahalanobis' =
       TopSounds_v10(final_combined_data, backwards(top_indices), user_group_ids,
                     MIN_LIKING, MIN_FAMILIARITY, top_n)
  /\ Display_Euclidean_Sounds' \in BOOLEAN
  /\ euc_audio_num' = 0
  /\ pc' = "euclidean_sounds"
  /\ UNCHANGED << mah_audio_num, rank_label, display_frame >>

\* lines 601-651: one turn of the loop over closest_sounds_euclidean; a count
\* that is no key of audio_closeness_display is a KeyError
display_euclidean_sound ==
  /\ pc = "euclidean_sounds"
  /\ Display_Euclidean_Sounds
  /\ euc_audio_num < Len(closest_sounds_euclidean)
  /\ euc_audio_num' = euc_audio_num + 1
  /\ IF euc_audio_num' \in DOMAIN audio_closeness_display
     THEN rank_label' = audio_closeness_display[euc_audio_num'] /\ UNCHANGED pc
     ELSE rank_label' = "" /\ pc' = "KeyError"
  /\ UNCHANGED << shown, mah_audio_num, display_frame >>

\* lines 659-662: the Euclidean sounds are shown or are not asked for
mahalanobis_sounds ==
  /\ pc = "euclidean_sounds"
  /\ ~Display_Euclidean_Sounds \/ euc_audio_num = Len(closest_sounds_euclidean)
  /\ mah_audio_num' = 0
  /\ pc' = "mahalanobis_sounds"
  /\ UNCHANGED << shown, euc_audio_num, rank_label, display_frame >>

\* lines 665-722: one turn of the loop over closest_sounds_mahalanobis
display_mahalanobis_sound ==
  /\ pc = "mahalanobis_sounds"
  /\ mah_audio_num < Len(closest_sounds_mahalanobis)
  /\ mah_audio_num' = mah_audio_num + 1
  /\ IF mah_audio_num' \in DOMAIN audio_closeness_display
     THEN rank_label' = audio_closeness_display[mah_audio_num'] /\ UNCHANGED pc
     ELSE rank_label' = "" /\ pc' = "KeyError"
  /\ UNCHANGED << shown, euc_audio_num, display_frame >>

NextDisplay ==
  \/ display_results
  \/ display_euclidean_sound
  \/ mahalanobis_sounds
  \/ display_mahalanobis_sound

SpecDisplay == InitDisplay /\ [][NextDisplay]_vars

\* ================================================================ claims
\* a distance query has returned
Returned == pc \in {"euclidean", "mahalanobis"}
TopN == version \in {"v5", "v9", "v10"}

\* x <= y on floats: false as soon as one side is NaN
FloatLeq(x, y) == ~isna(x) /\ ~isna(y) /\ x <= y

\* 1-based position of a row index in top_indices
Rank(i) == CHOOSE p \in DOMAIN top_indices : top_indices[p] = i

\* C1: the sounds a top-N query of v10.0 returns are listed in ascending
\* order of their computed distance: of any two returned sounds the earlier
\* one has a distance less than or equal to the later one's.
C1_AscendingDistance ==
  (Returned /\ version = "v10") =>
    \A a, b \in DOMAIN closest_sounds :
      a < b => FloatLeq(distances[closest_sounds[a]], distances[closest_sounds[b]])

\* C2: top-N selection (v5.0, v9.0, v10.0) returns at most top_n rows, all of
\* them rows of the distance-sorted sequence top_indices, and any two
\* returned rows stand in the order they have in top_indices.
C2_AtMostTopNInOrder ==
  (Returned /\ TopN) =>
    /\ Len(closest_sounds) <= top_n
    /\ \A a \in DOMAIN closest_sounds : closest_sounds[a] \in Range(top_indices)
    /\ \A a, b \in DOMAIN closest_sounds :
         a < b => Rank(closest_sounds[a]) < Rank(closest_sounds[b])

\* a v10.0 query that returned exactly top_n >= 2 rows after the filter had
\* dropped a better ranked row
C2_Witness ==
  /\ Returned /\ version = "v10"
  /\ top_n >= 2 /\ Len(closest_sounds) = top_n
  /\ closest_sounds # SubSeq(top_indices, 1, top_n)

\* C3: the result of a v10.0 query is the prefix of length
\* min(top_n, number of passing rows) of the rows of top_indices that pass
\* the filter, in the order of top_indices.
C3_PrefixOfPassing ==
  (Returned /\ version = "v10") =>
    LET passing ==
          SelectSeq(top_indices,
                    LAMBDA i : PassesFilter_v10(final_combined_data[i], user_group_ids,
                                                MIN_LIKING, MIN_FAMILIARITY))
    IN  closest_sounds = SubSeq(passing, 1, Min(top_n, Len(passing)))

\* a v10.0 query whose best ranked row failed the filter, that returned rows
\* all the same and left a passing row out because top_n was reached
C3_Witness ==
  /\ Returned /\ version = "v10"
  /\ closest_sounds # << >>
  /\ closest_sounds[1] # top_indices[1]
  /\ \E i \in Sounds :
       /\ i \notin Range(closest_sounds)
       /\ PassesFilter_v10(final_combined_data[i], user_group_ids,
                           MIN_LIKING, MIN_FAMILIARITY)

\* C4: with an empty list of selected groups the filter of v5.0 and v10.0
\* lets every row pass: the result is the first top_n rows of top_indices.
C4_EmptyGroupsNoFilter ==
  (Returned /\ version \in {"v5", "v10"} /\ user_group_ids = << >>) =>
    closest_sounds = SubSeq(top_indices, 1, Min(top_n, Len(top_indices)))

\* the liking and familiarity of row i of a table for group g
Liking(table, i, g) == table[i][str(g)]
Familiarity(table, i, g) == table[i][str(g + 12)]

SelectedGroups == Range(user_group_ids)
AllGroups == 1 .. NUM_DEMOGRAPHIC_GROUPS

RECURSIVE SetSum(_, _)
SetSum(f, S) ==
  IF S = {} THEN 0
  ELSE LET x == CHOOSE y \in S : TRUE IN f[x] + SetSum(f, S \ {x})

\* the mean liking and the mean familiarity of row i over exactly the
\* selected groups are defined and reach the thresholds
MeetsThresholds(i) ==
  /\ SelectedGroups # {}
  /\ \A g \in SelectedGroups :
       /\ ~isna(Liking(final_combined_data, i, g))
       /\ ~isna(Familiarity(final_combined_data, i, g))
  /\ SetSum([g \in SelectedGroups |-> Liking(final_combined_data, i, g)], SelectedGroups)
       >= MIN_LIKING * Cardinality(SelectedGroups)
  /\ SetSum([g \in SelectedGroups |-> Familiarity(final_combined_data, i, g)], SelectedGroups)
       >= MIN_FAMILIARITY * Cardinality(SelectedGroups)

\* the values a score cell can be changed to
ScoreValues == {NaN, 0, 100}

\* the liking columns and the familiarity columns of the groups that are
\* not selected
UnselectedLiking == { str(g) : g \in AllGroups \ SelectedGroups }
UnselectedFamiliarity == { str(g + 12) : g \in AllGroups \ SelectedGroups }

\* row i of the catalog with its cells in the given columns set to v
WithCells(i, columns, v) ==
  [c \in Columns |-> IF c \in columns THEN v ELSE final_combined_data[i][c]]

\* C5: with a non-empty group list a v10.0 query returns only rows whose mean
\* liking and mean familiarity over the selected groups reach MIN_LIKING and
\* MIN_FAMILIARITY, it leaves such a row out only when top_n better ranked
\* rows were already returned, and changing the liking or the familiarity
\* of the groups that are not selected, in any row, does not change whether
\* the filter keeps that row.
C5_MeanOverSelectedGroups ==
  (Returned /\ version = "v10" /\ user_group_ids # << >>) =>
    /\ \A i \in Sounds : i \in Range(closest_sounds) => MeetsThresholds(i)
    /\ \A i \in Sounds :
         (MeetsThresholds(i) /\ i \notin Range(closest_sounds)) =>
           /\ Len(closest_sounds) = top_n
           /\ Rank(i) > Rank(closest_sounds[top_n])
    /\ \A i \in Sounds, v \in ScoreValues :
         \A columns \in {UnselectedLiking, UnselectedFamiliarity} :
           PassesFilter_v10(WithCells(i, columns, v), user_group_ids,
                            MIN_LIKING, MIN_FAMILIARITY)
             <=> PassesFilter_v10(final_combined_data[i], user_group_ids,
                                  MIN_LIKING, MIN_FAMILIARITY)

\* a v10.0 query over two groups that returned a row although a better
\* ranked row has every selected score defined: that row missed a threshold
\* with its mean while one of its groups alone reaches it
C5_Witness ==
  /\ Returned /\ version = "v10" /\ Len(user_group_ids) = 2
  /\ closest_sounds # << >>
  /\ \E i \in Sounds :
       /\ i \notin Range(closest_sounds)
       /\ Rank(i) < Rank(closest_sounds[1])
       /\ \A g \in SelectedGroups :
            /\ ~isna(Liking(final_combined_data, i, g))
            /\ ~isna(Familiarity(final_combined_data, i, g))
       /\ \E g \in SelectedGroups : Liking(final_combined_data, i, g) >= MIN_LIKING
       /\ \E g \in SelectedGroups : Familiarity(final_combined_data, i, g) >= MIN_FAMILIARITY

\* the liking and the familiarity of row i are undefined for every selected
\* group
UndefinedForSelectedGroups(i) ==
  \A g \in SelectedGroups :
    /\ isna(Liking(final_combined_data, i, g))
    /\ isna(Familiarity(final_combined_data, i, g))

\* C6: a v9.0 or v10.0 query with a non-empty group list never returns a row
\* whose liking and familiarity are undefined for all selected groups,
\* whatever its rank and whatever the thresholds.
C6_UndefinedScoresExcluded ==
  (Returned /\ version \in {"v9", "v10"} /\ user_group_ids # << >>) =>
    \A i \in Sounds : UndefinedForSelectedGroups(i) => i \notin Range(closest_sounds)

\* a v10.0 query with both thresholds 0 whose best ranked row is undefined
\* for the selected groups and that returned other rows
C6_Witness ==
  /\ Returned /\ version = "v10" /\ user_group_ids # << >>
  /\ MIN_LIKING = 0 /\ MIN_FAMILIARITY = 0
  /\ closest_sounds # << >>
  /\ UndefinedForSelectedGroups(top_indices[1])
  /\ ~isna(distances[top_indices[1]])

\* C7: a row whose rating is NaN on a selected dimension is never returned,
\* by no variant and for neither metric.
C7_UndefinedRatingExcluded ==
  Returned =>
    \A a \in DOMAIN closest_sounds, k \in DOMAIN dimensions :
      ~isna(final_combined_data[closest_sounds[a]][dimensions[k]])

\* C8: in v5.0, v9.0 and v10.0 entry (i, j) of the sub-matrix is the entry of
\* the full inverse covariance matrix at the rating-column indices of the
\* i-th and j-th selected dimension.
C8_SubMatrixByColumnIndex ==
  (pc = "mahalanobis" /\ TopN) =>
    \A i, j \in 0 .. (Len(dimensions) - 1) :
      \A a, b \in MatrixIndex :
        (rating_columns[a + 1] = dimensions[i + 1] /\ rating_columns[b + 1] = dimensions[j + 1])
          => selected_inv_cov_matrix[i][j] = inv_cov_matrix[a][b]

\* C9: in v2.0/v3.0 entry (i, j) of the sub-matrix is the entry of the full
\* inverse covariance matrix at the rating-column indices of the i-th and
\* j-th selected dimension, for every ordered selection, and the query steps
\* only read the full inverse matrix: they neither change it nor invert again.
C9_SubMatrixV3 ==
  /\ []((pc = "mahalanobis" /\ version = "v3") =>
          /\ DOMAIN selected_inv_cov_matrix = 0 .. (Len(dimensions) - 1)
          /\ \A i, j \in 0 .. (Len(dimensions) - 1) :
               \A a, b \in MatrixIndex :
                 (rating_columns[a + 1] = dimensions[i + 1]
                    /\ rating_columns[b + 1] = dimensions[j + 1])
                   => selected_inv_cov_matrix[i][j] = inv_cov_matrix[a][b])
  /\ [][(version = "v3" /\ pc \in {"display_results", "euclidean"})
          => (inv_cov_matrix' = inv_cov_matrix /\ inversions' = inversions)]_vars

\* a v3.0 Mahalanobis query over the last and the first rating column, in
\* that order, whose sub-matrix is not the leading block of the full matrix
C9_Witness ==
  /\ pc = "mahalanobis" /\ version = "v3"
  /\ dimensions = << rating_columns[NumRatingColumns], rating_columns[1] >>
  /\ selected_inv_cov_matrix[0][0] = inv_cov_matrix[NumRatingColumns - 1][NumRatingColumns - 1]
  /\ selected_inv_cov_matrix[0][0] # inv_cov_matrix[0][0]

\* the values a rating cell can be changed to
RatingValues == {-1, 0, 1, NaN}

\* the permutation p lists the rows in ascending order of the distances d,
\* undefined distances last
Ascending(p, d) ==
  \A a \in 1 .. (Len(p) - 1) : SortsBefore(d[p[a]], d[p[a + 1]])

\* C10: after a v10.0 query of either metric, changing the rating of any row
\* on a dimension that is not selected leaves every distance as it is (the
\* cells of the other rows are untouched, and so are their distances), and
\* the ranking of the query is a ranking of the changed catalog.
C10_OnlySelectedDimensions ==
  (Returned /\ version = "v10") =>
    /\ Ascending(top_indices, distances)
    /\ \A i \in Sounds, d \in Range(rating_columns) \ Range(dimensions), v \in RatingValues :
         LET changed == [final_combined_data[i] EXCEPT ![d] = v]
         IN  distances[i] =
               IF pc = "euclidean"
               THEN EuclideanDistance(changed, dimensions, user_ratings)
               ELSE MahalanobisDistance(changed, dimensions, user_ratings,
                                        selected_inv_cov_matrix)

\* a v10.0 Mahalanobis query that returned a row with a defined distance
\* whose rating on a dimension that is not selected is undefined
C10_Witness ==
  /\ pc = "mahalanobis" /\ version = "v10"
  /\ \E a \in DOMAIN closest_sounds, d \in Range(rating_columns) \ Range(dimensions) :
       /\ isna(final_combined_data[closest_sounds[a]][d])
       /\ ~isna(distances[closest_sounds[a]])

\* a distance function has been invoked in this script run
Queried == pc \in {"display_results", "euclidean", "mahalanobis"}

\* C11: with a singular covariance matrix the load succeeds: the script run
\* does not end with the exception of np.linalg.inv, so that the Euclidean
\* query can return its result and only the Mahalanobis query fails.
C11_SingularLoadSucceeds ==
  Singular(cov_matrix) => pc # "LinAlgError"

\* the message that asks for a dimension, by variant
SelectADimension ==
  IF version \in {"v9", "v10"} THEN "Please Select At Least One Dimension"
  ELSE IF version = "v5" THEN "Please select at least one dimension."
  ELSE "Please select at least 1 dimension."

\* C12: a script run with no dimension selected ends without a query: no
\* distance function runs with an empty selection, no distance, ranking or
\* result exists afterwards, and the message asking for at least one
\* dimension is shown.
C12_NoDimensionRejected ==
  /\ Queried => dimensions # << >>
  /\ pc = "no_query" =>
       /\ dimensions = << >>
       /\ message = SelectADimension
       /\ distances = << >> /\ top_indices = << >> /\ closest_sounds = << >>
       /\ selected_inv_cov_matrix = << >>

\* a v10.0 run with groups selected and no dimension ended with the message
C12_Witness ==
  /\ pc = "no_query" /\ version = "v10"
  /\ user_group_ids # << >>
  /\ message = "Please Select At Least One Dimension"

\* C13: after the Euclidean and after the Mahalanobis query of v9.0 and v10.0
\* a warning stating top_n - (number returned) is shown exactly when fewer
\* than top_n sounds were returned.
C13_PartialResultWarning ==
  (Returned /\ version \in {"v9", "v10"}) =>
    warning = Shortfall(closest_sounds, top_n)

\* a column the code is written for is no column of the ratings file
AbsentColumn == \E c \in Range(DeclaredColumns) : c \notin Range(data_columns)

\* the load has gone through: the run is past load_and_prepare_data
LoadSucceeded ==
  pc \in {"no_query", "display_results", "euclidean", "mahalanobis", "KeyError"}

\* C14: a ratings table without the identifier column or without a declared
\* dimension column fails at load: no script run gets past the load with it
C14_AbsentColumnFailsAtLoad == AbsentColumn => ~LoadSucceeded
\* C15: ties are broken by catalog order: of two rows at the same distance the
\* earlier row of the catalog is ranked first, and v2.0/v3.0 return the
\* earliest row among those at the minimum distance.
C15_StableTieBreak ==
  /\ (Returned /\ TopN) =>
       \A i, j \in Sounds :
         (i < j /\ ~isna(distances[i]) /\ distances[i] = distances[j])
           => Rank(i) < Rank(j)
  /\ (Returned /\ version = "v3") =>
       LET closest == closest_sounds[1]
       IN  \A j \in Sounds :
             ~isna(distances[j]) =>
               /\ FloatLeq(distances[closest], distances[j])
               /\ distances[j] = distances[closest] => closest <= j
\* C16: no query changes the catalog or the cached inverse matrix: every step
\* of display_results, whether it returns sounds, returns none or raises,
\* leaves both as the load left them.
C16_QueriesReadOnly ==
  [][(pc \in {"display_results", "euclidean"}) =>
       /\ final_combined_data' = final_combined_data
       /\ inv_cov_matrix' = inv_cov_matrix]_vars

\* both calls of a query have run, the second returning nothing, and the
\* inverse is still the one of the load
C16_Witness ==
  /\ pc = "mahalanobis"
  /\ version = "v10"
  /\ closest_sounds = << >>
  /\ user_ratings[1] # 0
  /\ inv_cov_matrix = inv(cov_matrix)
\* C17: the covariance matrix is inverted exactly once per load, inside
\* load_and_prepare_data and before any query; the Mahalanobis call takes its
\* sub-matrix from that cached inverse, and no query step inverts again or
\* replaces the cached matrix.
C17_InvertedOncePerLoad ==
  /\ [](LoadSucceeded =>
         /\ inversions = 1
         /\ inv_cov_matrix \in InverseCovarianceMatrices
         /\ matmul(cov_matrix, inv_cov_matrix) = identity)
  /\ [](pc = "mahalanobis" =>
         selected_inv_cov_matrix =
           ix_(inv_cov_matrix,
               IF version = "v3" THEN SelectedRows_get_loc(dimensions)
               ELSE SelectedRows_index(dimensions)))
  /\ [][(pc \in {"display_results", "euclidean"}) => UNCHANGED loaded]_vars

\* a Mahalanobis call has taken a proper sub-matrix of the cached inverse
C17_Witness ==
  /\ pc = "mahalanobis"
  /\ version = "v9"
  /\ inversions = 1
  /\ Len(dimensions) = 1
  /\ selected_inv_cov_matrix[0][0] = inv_cov_matrix[0][0]
RatedOnSelection(i) ==
  \A k \in DOMAIN dimensions : ~isna(final_combined_data[i][dimensions[k]])

\* C19: every returned row has a defined, non-negative distance, and the
\* quadratic form of a Mahalanobis query over a sub-matrix of a loaded
\* inverse is never negative: a row rated on every selected dimension has a
\* defined Mahalanobis distance.
C19_DefinedNonNegativeDistance ==
  /\ Returned =>
       \A a \in DOMAIN closest_sounds :
         /\ ~isna(distances[closest_sounds[a]])
         /\ distances[closest_sounds[a]] >= 0
  /\ pc = "mahalanobis" =>
       \A i \in Sounds : RatedOnSelection(i) => ~isna(distances[i])
\* the target as a row and the ratings of row i as a target, for the
\* distance taken the other way round
TargetRow == [c \in Range(dimensions) |-> user_ratings[IndexOf(dimensions, c) + 1]]
RatingsOf(i) == [k \in DOMAIN dimensions |-> final_combined_data[i][dimensions[k]]]

\* row i has the target rating on every selected dimension
ExactMatch(i) ==
  \A k \in DOMAIN dimensions : final_combined_data[i][dimensions[k]] = user_ratings[k]

\* the Euclidean distance is symmetric and zero exactly for an exact match
C20_SymmetricZeroAtMatch ==
  pc = "euclidean" =>
    \A i \in Sounds :
      /\ RatedOnSelection(i) =>
           distances[i] = EuclideanDistance(TargetRow, dimensions, RatingsOf(i))
      /\ distances[i] = 0 <=> ExactMatch(i)

\* the ranking of a top-N variant has every exact match before every other row
C20_MatchRankedFirst ==
  (pc = "euclidean" /\ TopN) =>
    \A i, j \in Sounds : (ExactMatch(i) /\ ~ExactMatch(j)) => Rank(i) < Rank(j)

\* C20: the Euclidean distance is symmetric in target and entry and zero
\* exactly when the entry has the target rating on every selected dimension;
\* an exact match is ranked before every row that differs, and the single
\* closest sound of v2.0/v3.0 is an exact match whenever there is one.
C20_ExactMatchFirst ==
  /\ C20_SymmetricZeroAtMatch
  /\ C20_MatchRankedFirst
  /\ (pc = "euclidean" /\ version = "v3") =>
       ((\E i \in Sounds : ExactMatch(i)) => ExactMatch(closest_sounds[1]))
\* C21: every correlation c of the file is rescaled to 2c - 1 before it is
\* used, so that values in [0, 1] land in [-1, 1] (0 on -1, 0.5 on 0, 0.75 on
\* 0.5, 1 on 1), and entry (i, j) of the covariance matrix is the product of
\* the standard deviation of i, the rescaled correlation of i and j and the
\* standard deviation of j.
C21_RescaledCovariance ==
  /\ pc \in {"corr_matrix_setup", "covariance"} =>
       \A i, j \in MatrixIndex :
         LET c == correlations_csv[i][j + 2]
             r == corr_matrix[i][j]
         IN  /\ r + ONE = 2 * c
             /\ (0 <= c /\ c <= ONE) => (-ONE <= r /\ r <= ONE)
             /\ c = 0 => r = -ONE
             /\ 2 * c = ONE => r = 0
             /\ 4 * c = 3 * ONE => 2 * r = ONE
             /\ c = ONE => r = ONE
  /\ pc = "covariance" =>
       \A i, j \in MatrixIndex :
         covariance[i][j] =
           ratings_std[i] * (2 * correlations_csv[i][j + 2] - ONE) * ratings_std[j]

\* the covariance of two dimensions correlated at 0.75 with standard
\* deviations 1 and 2 has been computed
C21_Witness ==
  /\ pc = "covariance"
  /\ correlations_csv[0][3] = 3
  /\ ratings_std[0] = 1
  /\ ratings_std[1] = 2
  /\ covariance[0][1] = ONE
\* C22: in v5.0, with fewer than all 12 groups selected every returned sound
\* has a liking above 50 from at least one selected group; with all 12
\* groups selected there is no liking test and the result is the first top_n
\* rows of the ranking.
C22_LikingAbove50 ==
  (Returned /\ version = "v5") =>
    /\ Len(user_group_ids) < NUM_DEMOGRAPHIC_GROUPS =>
         \A a \in DOMAIN closest_sounds :
           \E g \in SelectedGroups :
             /\ ~isna(Liking(final_combined_data, closest_sounds[a], g))
             /\ Liking(final_combined_data, closest_sounds[a], g) > 50
    /\ Len(user_group_ids) = NUM_DEMOGRAPHIC_GROUPS =>
         closest_sounds = SubSeq(top_indices, 1, Min(top_n, Len(top_indices)))

\* a v5.0 query over two groups returned a row and passed over a better
\* ranked row whose liking is exactly 50 for one of the groups
C22_Witness ==
  /\ Returned /\ version = "v5" /\ Len(user_group_ids) = 2
  /\ closest_sounds # << >>
  /\ \E i \in Sounds :
       /\ i \notin Range(closest_sounds)
       /\ Rank(i) < Rank(closest_sounds[1])
       /\ \E g \in SelectedGroups : Liking(final_combined_data, i, g) = 50
\* the defined scores of row i over the selected groups, and the largest
\* member of a non-empty set of scores
DefinedLikings(i) ==
  { Liking(final_combined_data, i, g) : g \in SelectedGroups } \ {NaN}
DefinedFamiliarities(i) ==
  { Familiarity(final_combined_data, i, g) : g \in SelectedGroups } \ {NaN}
Largest(S) == CHOOSE x \in S : \A y \in S : y <= x

\* some selected group likes row i enough and some selected group, the same
\* or another, knows it enough
SomeGroupEach(i) ==
  /\ \E g \in SelectedGroups :
       FloatLeq(MIN_LIKING, Liking(final_combined_data, i, g))
  /\ \E g \in SelectedGroups :
       FloatLeq(MIN_FAMILIARITY, Familiarity(final_combined_data, i, g))

\* the largest liking and the largest familiarity of row i over the selected
\* groups each reach their threshold
LargestEach(i) ==
  /\ DefinedLikings(i) # {} /\ Largest(DefinedLikings(i)) >= MIN_LIKING
  /\ DefinedFamiliarities(i) # {}
  /\ Largest(DefinedFamiliarities(i)) >= MIN_FAMILIARITY

\* C23: in v9.0 a candidate passes the filter if and only if some selected
\* group's liking is at least MIN_LIKING and some selected group's
\* familiarity is at least MIN_FAMILIARITY, the two groups possibly
\* different; this is the same as the largest liking and the largest
\* familiarity over the selected groups each reaching their threshold. The
\* returned rows are the first top_n rows of the ranking that pass.
C23_AnyGroupEachThreshold ==
  (Returned /\ version = "v9") =>
    /\ \A i \in Sounds : SomeGroupEach(i) <=> LargestEach(i)
    /\ \A a \in DOMAIN closest_sounds : SomeGroupEach(closest_sounds[a])
    /\ \A i \in Sounds \ Range(closest_sounds) :
         SomeGroupEach(i) =>
           /\ Len(closest_sounds) >= top_n
           /\ Rank(i) > Rank(closest_sounds[Len(closest_sounds)])

\* v9.0 returned a row that one group likes enough and another group knows
\* enough, no single group doing both
C23_Witness ==
  /\ Returned /\ version = "v9" /\ MIN_LIKING = 50 /\ MIN_FAMILIARITY = 50
  /\ \E a \in DOMAIN closest_sounds :
       ~\E g \in SelectedGroups :
          /\ FloatLeq(MIN_LIKING, Liking(final_combined_data, closest_sounds[a], g))
          /\ FloatLeq(MIN_FAMILIARITY, Familiarity(final_combined_data, closest_sounds[a], g))
\* no slider has assigned a threshold of the session so far
NeverSet == MIN_LIKING = 0 /\ MIN_FAMILIARITY = 0

\* C24: in every run of v10.0 MIN_LIKING and MIN_FAMILIARITY are assigned
\* from the values the two sliders have in this run before display_results
\* filters, so that no query is filtered with a threshold left from an
\* earlier run; both thresholds are integers in 0..100 in every reachable
\* state, they are 0 at the start and change only by a slider assigning them.
C24_ThresholdsOfThisRun ==
  /\ NeverSet
  /\ [](/\ MIN_LIKING \in 0 .. 100
        /\ MIN_FAMILIARITY \in 0 .. 100
        /\ (version = "v10" /\ Queried) =>
             /\ sliders # << >>
             /\ sliders[1] \in 0 .. 100 /\ sliders[2] \in 0 .. 100
             /\ session = sliders)
  /\ [][session' # session => (sliders' # << >> /\ session' = sliders')]_vars

\* a query of v10.0 is filtered with the threshold the slider has in this
\* run, the session having come into the run with another one
C24_Witness ==
  /\ version = "v10" /\ Returned
  /\ sliders = << 0, 50 >> /\ MIN_LIKING = 0 /\ MIN_FAMILIARITY = 50
  /\ closest_sounds # << >> /\ Len(closest_sounds) < top_n
\* C25: for every sound the filter of v10.0 returns under a non-empty group
\* list, the liking and the familiarity calculate_scores reports for it are
\* at least the thresholds the filter applied.
C25_ReportedAtLeastThreshold ==
  (pc = "filtered" /\ closest_sounds # << >> /\ user_group_ids # << >>) =>
    /\ average_liking >= MIN_LIKING
    /\ average_familiarity >= MIN_FAMILIARITY
\* the whole number a score is cut to, in units of 1: the one between 0 and
\* the score that is nearest to the score; 0 for an undefined or missing one
Truncated(r, key) ==
  IF key \notin DOMAIN r \/ isna(r[key]) THEN 0
  ELSE CHOOSE t \in -100 .. 100 :
         IF r[key] >= 0
         THEN ONE_SCORE * t <= r[key] /\ r[key] < ONE_SCORE * (t + 1)
         ELSE ONE_SCORE * (t - 1) < r[key] /\ r[key] <= ONE_SCORE * t

\* a is the floor of the mean of the cut scores of the selected groups
\* under the keys of offset
FloorOfMean(a, offset) ==
  LET sum == SumSeq([k \in DOMAIN user_group_ids |->
                       Truncated(row, str(user_group_ids[k] + offset))])
      n == Len(user_group_ids)
  IN  \E whole \in -100 .. 100 :
        /\ a = ONE_SCORE * whole
        /\ whole * n <= sum /\ sum < (whole + 1) * n

\* C30: calculate_scores never divides by zero: the divisor counts the ids
\* taken so far and the division is made only when it is above 0; with an
\* empty group list the result is (0, 0); with a non-empty one it is, for
\* liking and familiarity each, the floor of the mean over the selected groups
\* of the scores cut to whole numbers, an undefined or missing score counting
\* as 0 and counting in the divisor.
C30_FloorOfTruncatedMean ==
  /\ pc = "calculate_scores" =>
       count_liking = id_position /\ count_familiarity = id_position
  /\ pc \in {"calculate_scores_return", "filtered", "KeyError"} =>
       /\ count_liking = Len(user_group_ids)
       /\ count_familiarity = Len(user_group_ids)
       /\ IF user_group_ids = << >>
          THEN average_liking = 0 /\ average_familiarity = 0
          ELSE /\ FloorOfMean(average_liking, 0)
               /\ FloorOfMean(average_familiarity, 12)

\* calculate_scores has returned 25 for a liking of 50 from one group and an
\* undefined liking from the other
C30_Witness ==
  /\ pc = "calculate_scores_return"
  /\ user_group_ids = << 1, 2 >>
  /\ isna(row[str(1)]) /\ row[str(2)] = 50 * ONE_SCORE
  /\ average_liking = 25 * ONE_SCORE
\* the row matches the checkboxes: for every parameter with an option
\* checked, the row has one of the checked options
MatchesChecked(r) ==
  \A param \in Range(groupID_params) :
    (\E option \in Range(params[param]) : checked[option]) =>
      (\E option \in Range(params[param]) : checked[option] /\ r[param] = option)

\* C26: get_user_group_ids returns exactly the group ids of the rows of the
\* group table that match, for every parameter (Gender, Migration Background,
\* Age) with an option checked, one of the checked options, each id once per
\* row; a parameter with nothing checked does not restrict, so with nothing
\* checked every id of the table is returned; the Non-Binary checkbox does
\* not enter into the result.
C26_MatchingGroupIds ==
  pc = "user_group_ids" =>
    /\ Range(user_group_ids) =
         { groupID_data[k]["Group ID"] :
             k \in { n \in DOMAIN groupID_data : MatchesChecked(groupID_data[n]) } }
    /\ Len(user_group_ids) =
         Cardinality({ n \in DOMAIN groupID_data : MatchesChecked(groupID_data[n]) })
    /\ (\A option \in Checkboxes \ {"Non-Binary"} : ~checked[option]) =>
         user_group_ids = [k \in DOMAIN groupID_data |-> groupID_data[k]["Group ID"]]

\* with Female and the two upper age groups checked, Non-Binary checked as
\* well and no migration option checked, four of the twelve groups are
\* returned
C26_Witness ==
  /\ pc = "user_group_ids"
  /\ Len(groupID_data) = NUM_DEMOGRAPHIC_GROUPS
  /\ checked["Female"] /\ ~checked["Male"] /\ checked["Non-Binary"]
  /\ ~checked["Migration Background"] /\ ~checked["No Migration Background"]
  /\ ~checked["Age Group 1"] /\ checked["Age Group 2"] /\ checked["Age Group 3"]
  /\ Len(user_group_ids) = 4
\* the filter of the running version on a row, and its result on the ranking
\* of the last call, under the thresholds l and f
PassesUnder(i, l, f) ==
  IF version = "v10"
  THEN PassesFilter_v10(final_combined_data[i], user_group_ids, l, f)
  ELSE PassesFilter_v9(final_combined_data[i], user_group_ids, l, f)
ReturnedUnder(l, f) ==
  IF version = "v10"
  THEN TopSounds_v10(final_combined_data, top_indices, user_group_ids, l, f, top_n)
  ELSE TopSounds_v9(final_combined_data, top_indices, user_group_ids, l, f, top_n)

\* C27: raising a threshold admits no sound: with the catalog, the target,
\* the metric and a non-empty group list fixed, every candidate that passes
\* the filter under the thresholds of the query passes it under any lower
\* pair of thresholds, and the query returns at most as many sounds as it
\* would under the lower pair.
C27_RaisingAdmitsNone ==
  (Returned /\ version \in {"v9", "v10"} /\ user_group_ids # << >>) =>
    \A l \in Thresholds, f \in Thresholds :
      (l <= MIN_LIKING /\ f <= MIN_FAMILIARITY /\ << l, f >> # session) =>
        /\ \A i \in Sounds :
             PassesUnder(i, MIN_LIKING, MIN_FAMILIARITY) => PassesUnder(i, l, f)
        /\ Len(closest_sounds) <= Len(ReturnedUnder(l, f))

\* a query of v10.0 under a raised liking threshold returns fewer sounds than
\* the same query would under the threshold 0
C27_Witness ==
  /\ Returned /\ version = "v10" /\ user_group_ids # << >>
  /\ MIN_LIKING = 50 /\ MIN_FAMILIARITY = 0
  /\ closest_sounds # << >>
  /\ Len(closest_sounds) < Len(ReturnedUnder(0, 0))
\* C28: no catalog row is returned twice: whatever the distances (equal or
\* undefined ones included), the groups, the thresholds and top_n, the row
\* indices a query of v10.0 returns are pairwise distinct; the ranking the
\* filter loop runs over holds every catalog row exactly once, so that the
\* loop looks at a row at most once and makes at most as many turns as the
\* catalog has rows.
C28_NoRowTwice ==
  (Returned /\ version = "v10") =>
    /\ \A a, b \in DOMAIN closest_sounds :
         closest_sounds[a] = closest_sounds[b] => a = b
    /\ Len(top_indices) = NumSounds
    /\ Range(top_indices) = Sounds
    /\ Range(closest_sounds) \subseteq Sounds

\* a query of v10.0 returned two rows at the same distance, a third row having
\* an undefined distance
C28_Witness ==
  /\ Returned /\ version = "v10"
  /\ Len(closest_sounds) >= 2
  /\ distances[closest_sounds[1]] = distances[closest_sounds[2]]
  /\ \E i \in Sounds : isna(distances[i])
\* C29: in display_results of v10.0 the label audio_closeness_display[n] is
\* defined whenever it is read: for each metric the counter n of the sounds
\* shown stays within 1..10 once a sound is shown, because top_n is in 1..10
\* and a result has at most top_n rows.
C29_RankLabelDefined ==
  /\ pc # "KeyError"
  /\ top_n \in 1 .. 10
  /\ Len(closest_sounds_euclidean) <= top_n
  /\ Len(closest_sounds_mahalanobis) <= top_n
  /\ euc_audio_num \in 0 .. Len(closest_sounds_euclidean)
  /\ mah_audio_num \in 0 .. Len(closest_sounds_mahalanobis)
  /\ \A n \in {euc_audio_num, mah_audio_num} \ {0} :
       n \in 1 .. 10 /\ n \in DOMAIN audio_closeness_display
  /\ (pc = "mahalanobis_sounds" /\ mah_audio_num > 0) =>
       rank_label = audio_closeness_display[mah_audio_num]

\* with top_n 10 and more than ten rows passing the filter, the loop over the
\* Mahalanobis result has shown its tenth sound after the Euclidean loop has
\* shown ten
C29_Witness ==
  /\ pc = "mahalanobis_sounds"
  /\ top_n = TOP_N_MAX
  /\ Cardinality({ i \in Listed :
                     PassesFilter_v10(final_combined_data[i], user_group_ids,
                                      MIN_LIKING, MIN_FAMILIARITY) }) > TOP_N_MAX
  /\ euc_audio_num = TOP_N_MAX /\ mah_audio_num = TOP_N_MAX
  /\ rank_label = "(10th Closest)"
====
